---- MODULE Spec2Model ----
(***************************************************************************)
(* Model of src/sinks/util/service.rs: the request configuration           *)
(* (TowerRequestConfig), its resolution to TowerRequestSettings            *)
(* (unwrap_with), and the two request pipelines assembled from the         *)
(* settings (TowerRequestLayer::layer and distributed_service).            *)
(*                                                                         *)
(* Part 1 (this part) is the configuration: values, TOML parsing and       *)
(* serialization, the builder methods and unwrap_with.                     *)
(***************************************************************************)
EXTENDS Integers, Sequences, FiniteSets, TLC

(***************************************************************************)
(* Machine integers.  TLC's integers are 32 bits wide, so the 64-bit       *)
(* words of the program are modelled with WordBits bits: u64 is            *)
(* 0 .. 2^WordBits - 1 and i64::MAX is 2^(WordBits-1) - 1.                 *)
(***************************************************************************)
WordBits == 7

U64_MAX == 2^WordBits - 1

I64_MAX == 2^(WordBits - 1) - 1

ISIZE_MAX == 2^(WordBits - 1) - 1

(***************************************************************************)
(* Option<T>: None is the empty sequence, Some(v) the one-element one.     *)
(***************************************************************************)
None == << >>

Some(v) == << v >>

IsSome(o) == o # << >>

\* Option::or
Or(a, b) == IF IsSome(a) THEN a ELSE b

\* Option::unwrap of a value that is Some
Unwrap(o) == o[1]

(***************************************************************************)
(* enum Concurrency { None, Adaptive, Fixed(usize) }                       *)
(***************************************************************************)
ConcNone == [kind |-> "None", n |-> 0]

ConcAdaptive == [kind |-> "Adaptive", n |-> 0]

Fixed(n) == [kind |-> "Fixed", n |-> n]

\* Concurrency::parse_concurrency: the settings-level value of the enum.
parse_concurrency(c) ==
    CASE c.kind = "None" -> None
      [] c.kind = "Adaptive" -> None
      [] c.kind = "Fixed" -> Some(c.n)

\* JitterMode and AdaptiveConcurrencySettings are carried through opaquely.
JitterModes == {"Full", "None"}

JitterMode_default == "Full"

AdaptiveSettingsSamples == {"acs_default", "acs_tuned"}

AdaptiveConcurrencySettings_default == "acs_default"

(***************************************************************************)
(* The global defaults.                                                    *)
(***************************************************************************)
\* (mutant) a fixed global default
default_concurrency_fixed == Some(Fixed(1))

default_concurrency == Some(ConcAdaptive)

default_timeout_secs == Some(60)

default_rate_limit_duration_secs == Some(1)

default_rate_limit_num == Some(I64_MAX)

default_retry_attempts == Some(ISIZE_MAX)

default_retry_max_duration_secs == Some(30)

default_retry_initial_backoff_secs == Some(1)

\* impl Default for TowerRequestConfig
DefaultConfig ==
    [concurrency |-> default_concurrency,
     timeout_secs |-> default_timeout_secs,
     rate_limit_duration_secs |-> default_rate_limit_duration_secs,
     rate_limit_num |-> default_rate_limit_num,
     retry_attempts |-> default_retry_attempts,
     retry_max_duration_secs |-> default_retry_max_duration_secs,
     retry_initial_backoff_secs |-> default_retry_initial_backoff_secs,
     retry_jitter_mode |-> JitterMode_default,
     adaptive_concurrency |-> AdaptiveConcurrencySettings_default]

\* The seven optional integer-or-enum fields, and all the keys of the config.
IntFields ==
    {"timeout_secs", "rate_limit_duration_secs", "rate_limit_num",
     "retry_attempts", "retry_max_duration_secs", "retry_initial_backoff_secs"}

OptFields == IntFields \cup {"concurrency"}

Keys == OptFields \cup {"retry_jitter_mode", "adaptive_concurrency"}

(***************************************************************************)
(* TOML documents: a document gives each key no value (None) or one value; *)
(* a value is an integer, a string or a table (opaque, named by s).        *)
(***************************************************************************)
TInt(i) == [t |-> "int", i |-> i, s |-> ""]

TStr(s) == [t |-> "str", i |-> 0, s |-> s]

TTable(s) == [t |-> "table", i |-> 0, s |-> s]

EmptyDoc == [k \in Keys |-> None]

\* Result of deserializing one field: Ok(value) or Err.
Ok(v) == [ok |-> TRUE, val |-> v]

Err == [ok |-> FALSE, val |-> None]

\* (mutant) off by one: i64::MAX itself is refused
toml_integer_ok_excl(i) == i >= -(I64_MAX + 1) /\ i < I64_MAX

\* A TOML integer is an i64: digits beyond i64::MAX do not deserialize.
toml_integer_ok(i) == i >= -(I64_MAX + 1) /\ i <= I64_MAX

\* (mutant) the field declared #[serde(default)] u64: absent is Some(0)
deserialize_uint_default(o) ==
    IF ~IsSome(o) THEN Ok(Some(0))
    ELSE LET v == Unwrap(o) IN
         IF v.t = "int" /\ toml_integer_ok(v.i) /\ v.i >= 0
         THEN Ok(Some(v.i)) ELSE Err

\* Option<u64> / Option<usize> field: absent is None, a non-negative
\* integer is Some, anything else is an error.
deserialize_opt_uint(o) ==
    IF ~IsSome(o) THEN Ok(None)
    ELSE LET v == Unwrap(o) IN
         IF v.t = "int" /\ toml_integer_ok(v.i) /\ v.i >= 0
         THEN Ok(Some(v.i)) ELSE Err

\* Option<Concurrency>: an integer >= 1, "adaptive" or "none".
deserialize_concurrency(o) ==
    IF ~IsSome(o) THEN Ok(None)
    ELSE LET v == Unwrap(o) IN
         CASE v.t = "int" ->
                IF toml_integer_ok(v.i) /\ v.i >= 1
                THEN Ok(Some(Fixed(v.i))) ELSE Err
           [] v.t = "str" ->
                IF v.s = "adaptive" THEN Ok(Some(ConcAdaptive))
                ELSE IF v.s = "none" THEN Ok(Some(ConcNone))
                ELSE Err
           [] OTHER -> Err

\* #[serde(default)] retry_jitter_mode: JitterMode
deserialize_jitter(o) ==
    IF ~IsSome(o) THEN Ok(JitterMode_default)
    ELSE LET v == Unwrap(o) IN
         IF v.t = "str" /\ v.s = "full" THEN Ok("Full")
         ELSE IF v.t = "str" /\ v.s = "none" THEN Ok("None")
         ELSE Err

\* #[serde(default)] adaptive_concurrency: AdaptiveConcurrencySettings
deserialize_adaptive(o) ==
    IF ~IsSome(o) THEN Ok(AdaptiveConcurrencySettings_default)
    ELSE LET v == Unwrap(o) IN
         IF v.t = "table" /\ v.s \in AdaptiveSettingsSamples THEN Ok(v.s)
         ELSE Err

\* toml::from_str::<TowerRequestConfig>: Some(config), or None on an error.
from_str(doc) ==
    LET c == deserialize_concurrency(doc.concurrency)
        f == [k \in IntFields |-> deserialize_opt_uint(doc[k])]
        j == deserialize_jitter(doc.retry_jitter_mode)
        a == deserialize_adaptive(doc.adaptive_concurrency)
    IN  IF c.ok /\ (\A k \in IntFields : f[k].ok) /\ j.ok /\ a.ok
        THEN Some([concurrency |-> c.val,
                   timeout_secs |-> f["timeout_secs"].val,
                   rate_limit_duration_secs |-> f["rate_limit_duration_secs"].val,
                   rate_limit_num |-> f["rate_limit_num"].val,
                   retry_attempts |-> f["retry_attempts"].val,
                   retry_max_duration_secs |-> f["retry_max_duration_secs"].val,
                   retry_initial_backoff_secs |-> f["retry_initial_backoff_secs"].val,
                   retry_jitter_mode |-> j.val,
                   adaptive_concurrency |-> a.val])
        ELSE None

\* Serialize for Concurrency: "none", "adaptive" or the number.
serialize_concurrency(c) ==
    CASE c.kind = "None" -> TStr("none")
      [] c.kind = "Adaptive" -> TStr("adaptive")
      [] c.kind = "Fixed" -> TInt(c.n)

serialize_jitter(j) == IF j = "Full" THEN TStr("full") ELSE TStr("none")

\* toml::to_string(&cfg): a None field is left out, a Some field is written.
to_string(cfg) ==
    [k \in Keys |->
        CASE k = "concurrency" ->
               IF IsSome(cfg.concurrency)
               THEN Some(serialize_concurrency(Unwrap(cfg.concurrency)))
               ELSE None
          [] k = "retry_jitter_mode" -> Some(serialize_jitter(cfg.retry_jitter_mode))
          [] k = "adaptive_concurrency" -> Some(TTable(cfg.adaptive_concurrency))
          [] OTHER -> IF IsSome(cfg[k]) THEN Some(TInt(Unwrap(cfg[k]))) ELSE None]

\* The builder methods: concurrency(), timeout_secs(), ... set one field.
with_field(cfg, k, v) == [cfg EXCEPT ![k] = Some(v)]

\* (mutant) retry_jitter_mode and adaptive_concurrency taken from the
\* component's defaults
unwrap_with_component_tuning(self, defaults) ==
    LET concurrency == Or(Or(self.concurrency, defaults.concurrency),
                          default_concurrency)
        timeout == Or(Or(self.timeout_secs, defaults.timeout_secs),
                      default_timeout_secs)
        rate_limit_duration ==
            Or(Or(self.rate_limit_duration_secs, defaults.rate_limit_duration_secs),
               default_rate_limit_duration_secs)
        rate_limit_num == Or(Or(self.rate_limit_num, defaults.rate_limit_num),
                             default_rate_limit_num)
        retry_attempts == Or(Or(self.retry_attempts, defaults.retry_attempts),
                             default_retry_attempts)
        retry_max_duration ==
            Or(Or(self.retry_max_duration_secs, defaults.retry_max_duration_secs),
               default_retry_max_duration_secs)
        retry_initial_backoff ==
            Or(Or(self.retry_initial_backoff_secs, defaults.retry_initial_backoff_secs),
               default_retry_initial_backoff_secs)
    IN  IF /\ IsSome(concurrency) /\ IsSome(timeout)
           /\ IsSome(rate_limit_duration) /\ IsSome(rate_limit_num)
           /\ IsSome(retry_attempts) /\ IsSome(retry_max_duration)
           /\ IsSome(retry_initial_backoff)
        THEN Some([concurrency |-> parse_concurrency(Unwrap(concurrency)),
                   timeout |-> Unwrap(timeout),
                   rate_limit_duration |-> Unwrap(rate_limit_duration),
                   rate_limit_num |-> Unwrap(rate_limit_num),
                   retry_attempts |-> Unwrap(retry_attempts),
                   retry_max_duration |-> Unwrap(retry_max_duration),
                   retry_initial_backoff |-> Unwrap(retry_initial_backoff),
                   adaptive_concurrency |-> defaults.adaptive_concurrency,
                   retry_jitter_mode |-> defaults.retry_jitter_mode])
        ELSE None

\* (mutant) retry_max_duration_secs takes the component's value before the
\* user's
unwrap_with_defaults_first(self, defaults) ==
    LET concurrency == Or(Or(self.concurrency, defaults.concurrency),
                          default_concurrency)
        timeout == Or(Or(self.timeout_secs, defaults.timeout_secs),
                      default_timeout_secs)
        rate_limit_duration ==
            Or(Or(self.rate_limit_duration_secs, defaults.rate_limit_duration_secs),
               default_rate_limit_duration_secs)
        rate_limit_num == Or(Or(self.rate_limit_num, defaults.rate_limit_num),
                             default_rate_limit_num)
        retry_attempts == Or(Or(self.retry_attempts, defaults.retry_attempts),
                             default_retry_attempts)
        retry_max_duration ==
            Or(Or(defaults.retry_max_duration_secs, self.retry_max_duration_secs),
               default_retry_max_duration_secs)
        retry_initial_backoff ==
            Or(Or(self.retry_initial_backoff_secs, defaults.retry_initial_backoff_secs),
               default_retry_initial_backoff_secs)
    IN  IF /\ IsSome(concurrency) /\ IsSome(timeout)
           /\ IsSome(rate_limit_duration) /\ IsSome(rate_limit_num)
           /\ IsSome(retry_attempts) /\ IsSome(retry_max_duration)
           /\ IsSome(retry_initial_backoff)
        THEN Some([concurrency |-> parse_concurrency(Unwrap(concurrency)),
                   timeout |-> Unwrap(timeout),
                   rate_limit_duration |-> Unwrap(rate_limit_duration),
                   rate_limit_num |-> Unwrap(rate_limit_num),
                   retry_attempts |-> Unwrap(retry_attempts),
                   retry_max_duration |-> Unwrap(retry_max_duration),
                   retry_initial_backoff |-> Unwrap(retry_initial_backoff),
                   adaptive_concurrency |-> self.adaptive_concurrency,
                   retry_jitter_mode |-> self.retry_jitter_mode])
        ELSE None

(***************************************************************************)
(* TowerRequestConfig::unwrap_with.  A Duration is held in whole seconds.  *)
(* The result is Some(settings), or None if an unwrap() panics.            *)
(***************************************************************************)
unwrap_with(self, defaults) ==
    LET concurrency == Or(Or(self.concurrency, defaults.concurrency),
                          default_concurrency)
        timeout == Or(Or(self.timeout_secs, defaults.timeout_secs),
                      default_timeout_secs)
        rate_limit_duration ==
            Or(Or(self.rate_limit_duration_secs, defaults.rate_limit_duration_secs),
               default_rate_limit_duration_secs)
        rate_limit_num == Or(Or(self.rate_limit_num, defaults.rate_limit_num),
                             default_rate_limit_num)
        retry_attempts == Or(Or(self.retry_attempts, defaults.retry_attempts),
                             default_retry_attempts)
        retry_max_duration ==
            Or(Or(self.retry_max_duration_secs, defaults.retry_max_duration_secs),
               default_retry_max_duration_secs)
        retry_initial_backoff ==
            Or(Or(self.retry_initial_backoff_secs, defaults.retry_initial_backoff_secs),
               default_retry_initial_backoff_secs)
    IN  IF /\ IsSome(concurrency) /\ IsSome(timeout)
           /\ IsSome(rate_limit_duration) /\ IsSome(rate_limit_num)
           /\ IsSome(retry_attempts) /\ IsSome(retry_max_duration)
           /\ IsSome(retry_initial_backoff)
        THEN Some([concurrency |-> parse_concurrency(Unwrap(concurrency)),
                   timeout |-> Unwrap(timeout),
                   rate_limit_duration |-> Unwrap(rate_limit_duration),
                   rate_limit_num |-> Unwrap(rate_limit_num),
                   retry_attempts |-> Unwrap(retry_attempts),
                   retry_max_duration |-> Unwrap(retry_max_duration),
                   retry_initial_backoff |-> Unwrap(retry_initial_backoff),
                   adaptive_concurrency |-> self.adaptive_concurrency,
                   retry_jitter_mode |-> self.retry_jitter_mode])
        ELSE None

(***************************************************************************)
(* Inputs of the configuration operations.                                 *)
(***************************************************************************)
\* How many keys a parsed document sets, and how many builder calls follow.
MaxDocKeys == 1

MaxSetCalls == 1

\* Integers written in documents and passed to the builder methods.
TomlIntSamples == {-9, 0, 3, I64_MAX + 1}

UintSamples == {3, U64_MAX}

ConcurrencySamples == {ConcNone, Fixed(0), Fixed(16)}

TomlValueSamples(k) ==
    CASE k = "concurrency" ->
           {TInt(-9), TInt(0), TInt(10), TStr("adaptive"), TStr("none"),
            TStr("broken")}
      [] k = "retry_jitter_mode" -> {TStr("full"), TStr("none"), TInt(1)}
      [] k = "adaptive_concurrency" -> {TTable(a) : a \in AdaptiveSettingsSamples}
      [] OTHER -> {TInt(i) : i \in TomlIntSamples} \cup {TStr("broken")}

\* The document of the test populated_config_unwrap_with.
PopulatedDoc ==
    [EmptyDoc EXCEPT !.concurrency = Some(TInt(16)), !.timeout_secs = Some(TInt(1)),
        !.rate_limit_duration_secs = Some(TInt(2)), !.rate_limit_num = Some(TInt(3)),
        !.retry_attempts = Some(TInt(4)), !.retry_max_duration_secs = Some(TInt(5)),
        !.retry_initial_backoff_secs = Some(TInt(6))]

SmallDocs ==
    UNION {{[k \in Keys |-> IF k \in ks THEN Some(v[k]) ELSE None] :
               v \in [ks -> UNION {TomlValueSamples(k) : k \in ks}]} :
           ks \in {x \in SUBSET Keys : Cardinality(x) <= MaxDocKeys}}

Docs ==
    {d \in SmallDocs :
        \A k \in Keys : IsSome(d[k]) => Unwrap(d[k]) \in TomlValueSamples(k)}
      \cup {PopulatedDoc}

SetterValues(k) == IF k = "concurrency" THEN ConcurrencySamples ELSE UintSamples

\* The component defaults the tests merge with: all fields unset, the
\* global defaults, the overrides of the tests, and overrides that also
\* change the two carried-through fields.
NoneDefaults ==
    [DefaultConfig EXCEPT !.concurrency = None, !.timeout_secs = None,
        !.rate_limit_duration_secs = None, !.rate_limit_num = None,
        !.retry_attempts = None, !.retry_max_duration_secs = None,
        !.retry_initial_backoff_secs = None]

Overrides ==
    [DefaultConfig EXCEPT !.concurrency = Some(Fixed(16)), !.timeout_secs = Some(1),
        !.rate_limit_duration_secs = Some(2), !.rate_limit_num = Some(3),
        !.retry_attempts = Some(4), !.retry_max_duration_secs = Some(5),
        !.retry_initial_backoff_secs = Some(6)]

TunedOverrides ==
    [Overrides EXCEPT !.concurrency = Some(ConcNone), !.rate_limit_num = None,
        !.retry_jitter_mode = "None", !.adaptive_concurrency = "acs_tuned"]

ComponentSamples == {NoneDefaults, DefaultConfig, Overrides, TunedOverrides}

(***************************************************************************)
(* State of the configuration operations.                                  *)
(*   user      : the config in hand, Some(cfg), or None after a failed     *)
(*               parse                                                     *)
(*   component : the component's defaults passed to unwrap_with            *)
(*   nset      : builder calls made on the config in hand                  *)
(*   call      : the last operation and what it returned                   *)
(***************************************************************************)
VARIABLES user, component, nset, call

cfgVars == <<user, component, nset, call>>

(***************************************************************************)
(* State of a pipeline.                                                    *)
(*   shape    : "none" (no pipeline built), "single" or "distributed"      *)
(*   rl       : the RateLimit layer: Ready{until, rem} or Limited, `until` *)
(*              held as the seconds left to the end of the window          *)
(*   acl      : permits in use of each AdaptiveConcurrencyLimit: index 0   *)
(*              is the single pipeline's, index e that of endpoint e       *)
(*   reqs     : per request, the state of its response future              *)
(*   queue    : the Buffer's channel (distributed)                         *)
(*   health   : per endpoint, the HealthService's state (distributed)      *)
(*   received : payloads the inner sender answered successfully, in order  *)
(*   last     : the outcome a request came to in the step just taken      *)
(*   recent   : seconds since each call admitted by RateLimit within the   *)
(*              last rate_limit_duration                                   *)
(*   inWindow : calls admitted in the RateLimit's current window           *)
(***************************************************************************)
VARIABLES shape, rl, acl, reqs, queue, health, received, last, recent, inWindow

pipeVars == <<shape, rl, acl, reqs, queue, health, received, last, recent, inWindow>>

vars == <<user, component, nset, call, shape, rl, acl, reqs, queue, health,
          received, last, recent, inWindow>>

\* What the caller saw of a request: ok, err (with the kind of the error
\* and the attempt it came from) or cancelled.
NoOutcome ==
    [outcome |-> "none", kind |-> "none", attempts |-> 0, errAttempt |-> 0,
     age |-> 0, lateRetry |-> FALSE]

\* The configuration operations run with no pipeline built.
NoPipeline ==
    /\ shape = "none"
    /\ rl = [state |-> "Ready", until |-> 0, rem |-> 0]
    /\ acl = << >>
    /\ reqs = << >>
    /\ queue = << >>
    /\ health = << >>
    /\ received = << >>
    /\ last = NoOutcome
    /\ recent = << >>
    /\ inWindow = 0

Idle == [op |-> "idle", doc |-> EmptyDoc, out |-> None]

InitConfig ==
    /\ user = Some(DefaultConfig)
    /\ component \in ComponentSamples
    /\ nset = 0
    /\ call = Idle
    /\ NoPipeline

\* cfg = toml::from_str::<TowerRequestConfig>(doc), in place of
\* TowerRequestConfig::default(), before any other use of the config.
FromStr ==
    \E d \in Docs :
        /\ call = Idle /\ nset = 0
        /\ user' = from_str(d)
        /\ nset' = 0
        /\ call' = [op |-> "from_str", doc |-> d, out |-> from_str(d)]
        /\ UNCHANGED <<component, pipeVars>>

\* cfg = cfg.<field>(value)
WithField ==
    \E k \in OptFields : \E v \in SetterValues(k) :
        /\ IsSome(user)
        /\ nset < MaxSetCalls
        /\ user' = Some(with_field(Unwrap(user), k, v))
        /\ nset' = nset + 1
        /\ call' = Idle
        /\ UNCHANGED <<component, pipeVars>>

\* settings = cfg.unwrap_with(&component)
UnwrapWith ==
    /\ IsSome(user)
    /\ call' = [op |-> "unwrap_with", doc |-> EmptyDoc,
                out |-> unwrap_with(Unwrap(user), component)]
    /\ UNCHANGED <<user, component, nset, pipeVars>>

\* toml::from_str(&toml::to_string(&cfg))
RoundTrip ==
    /\ IsSome(user)
    /\ call' = [op |-> "round_trip", doc |-> to_string(Unwrap(user)),
                out |-> from_str(to_string(Unwrap(user)))]
    /\ UNCHANGED <<user, component, nset, pipeVars>>

NextConfig == FromStr \/ WithField \/ UnwrapWith \/ RoundTrip

(***************************************************************************)
(* Part 2: the pipelines.                                                  *)
(*                                                                         *)
(*   single      (TowerRequestLayer::layer):                               *)
(*       RateLimit( AdaptiveConcurrencyLimit( Retry( Timeout( S ))))       *)
(*   distributed (distributed_service):                                    *)
(*       RateLimit( Retry( Buffer( Balance( per endpoint:                  *)
(*           AdaptiveConcurrencyLimit( HealthService( Timeout( S ))))))))  *)
(*                                                                         *)
(* Time is counted in whole seconds by the action Tick; every timer is a   *)
(* count of seconds elapsed or left.                                       *)
(***************************************************************************)
\* Requests submitted by the caller, in the order 1, 2, ..., to the single
\* pipeline and to the distributed pipeline.
NumReq == 3

NumReqDistributed == 2

\* Endpoints of the distributed pipeline.
NumEndpoints == 2

\* Settings the pipelines are built with.
MaxConcurrency == 2

MaxTimeout == 1

MaxRateLimitNum == 2

RateLimitDuration == 2

MaxRetryAttempts == 2

MaxRetryMaxDuration == 2

InitialBackoff == 2

\* services.len() * 200
BufferPerEndpoint == 200

Min(a, b) == IF a <= b THEN a ELSE b

Max(a, b) == IF a >= b THEN a ELSE b

Requests == 1 .. Max(NumReq, NumReqDistributed)

Endpoints == 1 .. NumEndpoints

\* The configs the pipelines are built from, as in
\* tests::partition_sink_retry_concurrency: the default config with fields
\* set by the builder methods.
PipelineConfigs ==
    {[DefaultConfig EXCEPT
        !.concurrency = Some(Fixed(n)),
        !.timeout_secs = Some(t),
        !.rate_limit_duration_secs = Some(RateLimitDuration),
        !.rate_limit_num = Some(rn),
        !.retry_attempts = Some(ra),
        !.retry_max_duration_secs = Some(md),
        !.retry_initial_backoff_secs = Some(InitialBackoff),
        !.retry_jitter_mode = "None"] :
       n \in 1 .. MaxConcurrency, t \in 1 .. MaxTimeout,
       rn \in 1 .. MaxRateLimitNum, ra \in 0 .. MaxRetryAttempts,
       md \in 1 .. MaxRetryMaxDuration}

\* The distributed pipeline is built from those with the longest
\* retry_max_duration and timeout.
DistributedConfigs ==
    {c \in PipelineConfigs :
        /\ c.retry_max_duration_secs = Some(MaxRetryMaxDuration)
        /\ c.timeout_secs = Some(MaxTimeout)}

\* The settings the pipeline was built with: cfg.unwrap_with(&defaults).
settings == Unwrap(call.out)

(***************************************************************************)
(* FibonacciRetryPolicy                                                    *)
(***************************************************************************)
\* (mutant) one retry more than retry_attempts
retry_policy_one_more(s) ==
    [remaining_attempts |-> s.retry_attempts + 1,
     previous_duration |-> 0,
     current_duration |-> s.retry_initial_backoff,
     max_duration |-> s.retry_max_duration,
     jitter_mode |-> s.retry_jitter_mode]

\* FibonacciRetryPolicy::new(retry_attempts, retry_initial_backoff,
\*                           retry_max_duration, logic, retry_jitter_mode)
retry_policy(s) ==
    [remaining_attempts |-> s.retry_attempts,
     previous_duration |-> 0,
     current_duration |-> s.retry_initial_backoff,
     max_duration |-> s.retry_max_duration,
     jitter_mode |-> s.retry_jitter_mode]

\* (mutant) max_duration taken as a cap that is never applied
next_duration_uncapped(p) == p.previous_duration + p.current_duration

\* The wait after the next retry: the sum of the last two waits, at most
\* max_duration ("the maximum amount of time to wait between retries").
next_duration(p) == Min(p.previous_duration + p.current_duration, p.max_duration)

\* FibonacciRetryPolicy::advance
advance(p) ==
    [p EXCEPT !.remaining_attempts = p.remaining_attempts - 1,
              !.previous_duration = p.current_duration,
              !.current_duration = next_duration(p)]

\* The waits the policy may sleep before the next retry: the current wait,
\* or with full jitter any wait up to it.
backoff(p) ==
    IF p.jitter_mode = "None" THEN {p.current_duration}
    ELSE 0 .. p.current_duration

\* Policy::retry on an error: retry unless the retries are exhausted or the
\* error is not retriable; a timeout (Elapsed) is retriable.
should_retry(p, kind) ==
    /\ p.remaining_attempts > 0
    /\ kind \in {"retriable", "timeout"}

(***************************************************************************)
(* Requests                                                                *)
(***************************************************************************)
\* A request the caller has not submitted yet, and one that is over.
\*   st       : new, queued (in the Buffer), inflight (at the inner sender),
\*              backoff (the retry's sleep) or done
\*   payload  : the request the Retry layer holds a clone of
\*   attempts : attempts made so far
\*   policy   : the request's FibonacciRetryPolicy
\*   age      : seconds since the attempt in flight was dispatched
\*   sleep    : seconds left of the backoff; slept: the wait it began with
\*   elapsed  : seconds since the first attempt
\*   lim      : the limiter whose permit the request holds (-1: none)
\*   ep       : the endpoint of the attempt in flight (0: single pipeline)
\*   lastKind, lastAge : how the last attempt ended, and the age at which
\*              it timed out
\*   lateRetry: a retry was dispatched more than retry_max_duration after
\*              the first attempt
NewReq ==
    [st |-> "new", payload |-> 0, attempts |-> 0, policy |-> retry_policy(settings),
     age |-> 0, sleep |-> 0, slept |-> 0, elapsed |-> 0, lim |-> -1, ep |-> 0,
     lastKind |-> "none", lastAge |-> 0, lateRetry |-> FALSE]

DoneReq == [NewReq EXCEPT !.st = "done"]

\* Requests whose attempt is at the inner sender of limiter/endpoint e
\* (e = 0: the single pipeline's inner sender).
InFlightAt(e) == {r \in Requests : reqs[r].st = "inflight" /\ reqs[r].ep = e}

\* (mutant) the limiter built with the size of the Buffer
ConcurrencyLimit_buffer == NumEndpoints * BufferPerEndpoint

\* AdaptiveConcurrencyLimitLayer::new(settings.concurrency, ..): with
\* Some(N) the limit is pinned to N.
ConcurrencyLimit == Unwrap(settings.concurrency)

\* AdaptiveConcurrencyLimit::poll_ready: a permit is free.
PermitAvailable(e) == acl[e] < ConcurrencyLimit

\* The requests the caller has for the pipeline that was built.
Callers == IF shape = "distributed" THEN 1 .. NumReqDistributed ELSE 1 .. NumReq

CallerWaiting == \E r \in Callers : reqs[r].st = "new"

\* The next request the caller submits.
NextToSubmit == CHOOSE r \in Callers :
                    /\ reqs[r].st = "new"
                    /\ \A q \in Callers : q < r => reqs[q].st # "new"

(***************************************************************************)
(* RateLimit (tower::limit::RateLimit built by .rate_limit(num, per))      *)
(***************************************************************************)
RateLimitInit(s) == [state |-> "Ready", until |-> 0, rem |-> s.rate_limit_num]

\* (mutant) the counter compared with 0: one call more per window
RateLimit_call_one_more(l) ==
    LET expired == l.until = 0
        until == IF expired THEN settings.rate_limit_duration ELSE l.until
        rem == IF expired THEN settings.rate_limit_num ELSE l.rem
    IN  IF rem > 0
        THEN [state |-> "Ready", until |-> until, rem |-> rem - 1]
        ELSE [state |-> "Limited", until |-> until, rem |-> 0]

\* RateLimit::call in state Ready: a window that has run out is opened
\* anew; the call takes one of the window's calls, and the last one turns
\* the limiter Limited until the window ends.
RateLimit_call(l) ==
    LET expired == l.until = 0
        until == IF expired THEN settings.rate_limit_duration ELSE l.until
        rem == IF expired THEN settings.rate_limit_num ELSE l.rem
    IN  IF rem > 1
        THEN [state |-> "Ready", until |-> until, rem |-> rem - 1]
        ELSE [state |-> "Limited", until |-> until, rem |-> 0]

\* Whether this call opens a new window.
OpensWindow(l) == l.until = 0

(***************************************************************************)
(* Timeout (tower::timeout::Timeout built by .timeout(settings.timeout))   *)
(***************************************************************************)
\* (mutant) a deadline that runs from the request's first attempt
TimeoutExpired_since_first(q) == q.elapsed >= settings.timeout

\* The attempt's own timer, started when Timeout::call dispatched it.
TimeoutExpired(q) == q.age >= settings.timeout

\* `elapsed` is counted up to just beyond retry_max_duration.
ElapsedCap == settings.retry_max_duration + 1

(***************************************************************************)
(* Buffer and Balance (distributed)                                        *)
(***************************************************************************)
\* let max_concurrency = services.len() * 200;
\* (mutant) the Buffer sized for one endpoint
max_concurrency_one == BufferPerEndpoint

max_concurrency == Len(health) * BufferPerEndpoint

\* Buffer::poll_ready
BufferReady == Len(queue) < max_concurrency

\* An endpoint's chain is ready: the health gate is open and a permit free.
EndpointReady(e) == health[e] = "Healthy" /\ PermitAvailable(e)

ReadyEndpoints == {e \in Endpoints : EndpointReady(e)}

\* (mutant) a balancer that does not ask whether the endpoint is ready
P2CChoice_unready(e) == e \in Endpoints

\* p2c: of two ready endpoints drawn at random (one, if only one is
\* ready), the less loaded.
P2CChoice(e) ==
    /\ e \in ReadyEndpoints
    /\ \E o \in ReadyEndpoints :
          /\ (Cardinality(ReadyEndpoints) > 1 => o # e)
          /\ acl[e] <= acl[o]

RemoveFromQueue(r) == SelectSeq(queue, LAMBDA x : x # r)

(***************************************************************************)
(* Actions                                                                 *)
(***************************************************************************)
Init ==
    /\ user \in {Some(c) : c \in PipelineConfigs}
    /\ component = DefaultConfig
    /\ nset = 0
    /\ call = [op |-> "unwrap_with", doc |-> EmptyDoc,
               out |-> unwrap_with(Unwrap(user), component)]
    /\ shape \in {"single", "distributed"}
    /\ shape = "distributed" => Unwrap(user) \in DistributedConfigs
    /\ rl = RateLimitInit(settings)
    /\ acl = [e \in 0 .. NumEndpoints |-> 0]
    /\ reqs = [r \in Requests |-> NewReq]
    /\ queue = << >>
    /\ health = [e \in Endpoints |-> "Unknown"]
    /\ received = << >>
    /\ last = NoOutcome
    /\ recent = << >>
    /\ inWindow = 0

\* RateLimit::poll_ready while Limited, once the window's sleep is over:
\* a new window opens at the poll.
RateLimitPollReady ==
    /\ CallerWaiting
    /\ rl.state = "Limited" /\ rl.until = 0
    /\ rl' = [state |-> "Ready", until |-> settings.rate_limit_duration,
              rem |-> settings.rate_limit_num]
    /\ inWindow' = 0
    /\ last' = NoOutcome
    /\ UNCHANGED <<user, component, nset, call, shape, acl, reqs, queue, health,
                   received, recent>>

\* Svc: poll_ready (RateLimit Ready, a permit free) and call: the first
\* attempt is dispatched to the inner sender under the permit.
SubmitSingle ==
    /\ shape = "single"
    /\ CallerWaiting
    /\ rl.state = "Ready"
    /\ PermitAvailable(0)
    /\ LET r == NextToSubmit IN
       reqs' = [reqs EXCEPT ![r] = [NewReq EXCEPT !.st = "inflight", !.payload = r,
                                       !.attempts = 1, !.lim = 0]]
    /\ rl' = RateLimit_call(rl)
    /\ acl' = [acl EXCEPT ![0] = @ + 1]
    /\ recent' = Append(recent, 0)
    /\ inWindow' = IF OpensWindow(rl) THEN 1 ELSE inWindow + 1
    /\ last' = NoOutcome
    /\ UNCHANGED <<user, component, nset, call, shape, queue, health, received>>

\* DistributedService: poll_ready (RateLimit Ready, room in the Buffer) and
\* call: the first attempt is queued for the balancer.
SubmitDistributed ==
    /\ shape = "distributed"
    /\ CallerWaiting
    /\ rl.state = "Ready"
    /\ BufferReady
    /\ LET r == NextToSubmit IN
       /\ reqs' = [reqs EXCEPT ![r] = [NewReq EXCEPT !.st = "queued", !.payload = r,
                                          !.attempts = 1]]
       /\ queue' = Append(queue, r)
    /\ rl' = RateLimit_call(rl)
    /\ recent' = Append(recent, 0)
    /\ inWindow' = IF OpensWindow(rl) THEN 1 ELSE inWindow + 1
    /\ last' = NoOutcome
    /\ UNCHANGED <<user, component, nset, call, shape, acl, health, received>>

\* The Buffer's worker hands the oldest queued attempt to the endpoint the
\* balancer chose; the endpoint's limiter gives it a permit and its
\* Timeout starts.
WorkerDispatch ==
    /\ shape = "distributed"
    /\ queue # << >>
    /\ \E e \in Endpoints :
          /\ P2CChoice(e)
          /\ acl' = [acl EXCEPT ![e] = @ + 1]
          /\ reqs' = [reqs EXCEPT ![Head(queue)] =
                         [@ EXCEPT !.st = "inflight", !.ep = e, !.lim = e, !.age = 0]]
    /\ queue' = Tail(queue)
    /\ last' = NoOutcome
    /\ UNCHANGED <<user, component, nset, call, shape, rl, health, received,
                   recent, inWindow>>

\* The health probe of an endpoint succeeds or fails.
HealthProbe ==
    /\ shape = "distributed"
    /\ \E e \in Endpoints : \E h \in {"Healthy", "Unhealthy"} :
          /\ health[e] # h
          /\ health' = [health EXCEPT ![e] = h]
    /\ last' = NoOutcome
    /\ UNCHANGED <<user, component, nset, call, shape, rl, acl, reqs, queue,
                   received, recent, inWindow>>

\* (mutant) the limiter placed below the Retry layer
PermitHeldAcrossRetries_never == FALSE

\* The single pipeline's limiter wraps the Retry layer, so its permit is
\* held by the whole retry series; an endpoint's limiter is inside the
\* Retry layer, so its permit goes back with each attempt.
PermitHeldAcrossRetries == shape = "single"

\* The permits after request q gave back the one it holds.
Released(q) == IF q.lim >= 0 THEN [acl EXCEPT ![q.lim] = @ - 1] ELSE acl

\* The error an outcome carries is the one of the attempt that ended last.
Outcome(q, outcome, kind) ==
    [outcome |-> outcome, kind |-> kind, attempts |-> q.attempts,
     errAttempt |-> IF outcome = "err" THEN q.attempts ELSE 0,
     age |-> IF kind = "timeout" THEN q.age ELSE 0,
     lateRetry |-> q.lateRetry]

\* The attempt of request r ends: the inner sender answers (ok, a
\* retriable or a fatal error) or the attempt's Timeout fires.  The Retry
\* layer asks the policy: a retry sleeps the backoff, anything else is the
\* request's outcome.  The single pipeline's permit is held until the
\* outcome; an endpoint's permit is given back with the attempt.
AttemptEnds ==
    \E r \in Requests : \E kind \in {"ok", "retriable", "fatal", "timeout"} :
        LET q == reqs[r] IN
        /\ q.st = "inflight"
        /\ kind = "timeout" => TimeoutExpired(q)
        /\ IF kind # "ok" /\ should_retry(q.policy, kind)
           THEN /\ \E w \in backoff(q.policy) :
                      reqs' = [reqs EXCEPT ![r] =
                                 [q EXCEPT !.st = "backoff", !.sleep = w,
                                           !.slept = q.policy.current_duration,
                                           !.policy = advance(q.policy),
                                           !.age = 0, !.ep = 0,
                                           !.lastKind = kind,
                                           !.lastAge = IF kind = "timeout"
                                                       THEN q.age ELSE 0,
                                           !.lim = IF PermitHeldAcrossRetries
                                                   THEN q.lim ELSE -1]]
                /\ acl' = IF PermitHeldAcrossRetries THEN acl ELSE Released(q)
                /\ last' = NoOutcome
                /\ UNCHANGED received
           ELSE /\ reqs' = [reqs EXCEPT ![r] = DoneReq]
                /\ acl' = Released(q)
                /\ received' = IF kind = "ok" THEN Append(received, q.payload)
                               ELSE received
                /\ last' = Outcome(q, IF kind = "ok" THEN "ok" ELSE "err", kind)
        /\ UNCHANGED <<user, component, nset, call, shape, rl, queue, health,
                       recent, inWindow>>

\* The backoff is over: the Retry layer calls its inner service again with
\* the clone of the request.
RetryDispatch ==
    \E r \in Requests :
        LET q == reqs[r]
            late == q.lateRetry \/ q.elapsed > settings.retry_max_duration
        IN
        /\ q.st = "backoff" /\ q.sleep = 0
        /\ IF shape = "single"
           THEN /\ reqs' = [reqs EXCEPT ![r] =
                              [q EXCEPT !.st = "inflight", !.attempts = @ + 1,
                                        !.age = 0, !.lateRetry = late]]
                /\ UNCHANGED queue
           ELSE /\ BufferReady
                /\ reqs' = [reqs EXCEPT ![r] =
                              [q EXCEPT !.st = "queued", !.attempts = @ + 1,
                                        !.lateRetry = late]]
                /\ queue' = Append(queue, r)
        /\ last' = NoOutcome
        /\ UNCHANGED <<user, component, nset, call, shape, rl, acl, health, received,
                       recent, inWindow>>

\* The caller drops the response future: the attempt and the retries are
\* abandoned and what the future held is released.
Cancel ==
    \E r \in Requests :
        LET q == reqs[r] IN
        /\ q.st \in {"queued", "inflight", "backoff"}
        /\ reqs' = [reqs EXCEPT ![r] = DoneReq]
        /\ acl' = Released(q)
        /\ queue' = RemoveFromQueue(r)
        /\ last' = Outcome(q, "cancelled", "none")
        /\ UNCHANGED <<user, component, nset, call, shape, rl, health, received,
                       recent, inWindow>>

\* One second passes, unless a Timeout is due first.
Tick ==
    /\ \A r \in Requests : reqs[r].st = "inflight" => ~TimeoutExpired(reqs[r])
    /\ reqs' = [r \in Requests |->
                  LET q == reqs[r] IN
                  IF q.st \in {"queued", "inflight", "backoff"}
                  THEN [q EXCEPT !.age = IF q.st = "inflight" THEN @ + 1 ELSE @,
                                 !.sleep = Max(@ - 1, 0),
                                 !.elapsed = Min(@ + 1, ElapsedCap)]
                  ELSE q]
    /\ rl' = [rl EXCEPT !.until = Max(@ - 1, 0)]
    /\ recent' = SelectSeq([i \in 1 .. Len(recent) |-> recent[i] + 1],
                           LAMBDA a : a < settings.rate_limit_duration)
    /\ last' = NoOutcome
    /\ UNCHANGED <<user, component, nset, call, shape, acl, queue, health, received,
                   inWindow>>

Next ==
    \/ RateLimitPollReady
    \/ SubmitSingle
    \/ SubmitDistributed
    \/ WorkerDispatch
    \/ HealthProbe
    \/ AttemptEnds
    \/ RetryDispatch
    \/ Cancel
    \/ Tick

Spec == Init /\ [][Next]_vars

\* The single-endpoint pipeline alone.
InitSingle == Init /\ shape = "single"

NextSingle ==
    \/ RateLimitPollReady
    \/ SubmitSingle
    \/ AttemptEnds
    \/ RetryDispatch
    \/ Cancel
    \/ Tick

SpecSingle == InitSingle /\ [][NextSingle]_vars

\* The distributed pipeline alone.
InitDistributed == Init /\ shape = "distributed"

NextDistributed ==
    \/ RateLimitPollReady
    \/ SubmitDistributed
    \/ WorkerDispatch
    \/ HealthProbe
    \/ AttemptEnds
    \/ RetryDispatch
    \/ Cancel
    \/ Tick

SpecDistributed == InitDistributed /\ [][NextDistributed]_vars

(***************************************************************************)
(* The retry policy alone: one request whose attempts all fail retriably,  *)
(* over sampled retry_initial_backoff and retry_max_duration.              *)
(***************************************************************************)
MaxBackoffSample == 3

MaxDurationSample == 6

MaxPolicyRetries == 5

PolicyConfigs ==
    {[DefaultConfig EXCEPT !.concurrency = Some(Fixed(1)),
                           !.retry_attempts = Some(MaxPolicyRetries),
                           !.retry_initial_backoff_secs = Some(b),
                           !.retry_max_duration_secs = Some(d),
                           !.retry_jitter_mode = "None"] :
        b \in 0 .. MaxBackoffSample, d \in 0 .. MaxDurationSample}

InitRetryPolicy ==
    /\ user \in {Some(c) : c \in PolicyConfigs}
    /\ component = DefaultConfig
    /\ nset = 0
    /\ call = [op |-> "unwrap_with", doc |-> EmptyDoc,
               out |-> unwrap_with(Unwrap(user), component)]
    /\ shape = "single"
    /\ rl = RateLimitInit(settings)
    /\ acl = [e \in 0 .. NumEndpoints |-> 0]
    /\ reqs = [r \in Requests |-> NewReq]
    /\ queue = << >>
    /\ health = [e \in Endpoints |-> "Unknown"]
    /\ received = << >>
    /\ last = NoOutcome
    /\ recent = << >>
    /\ inWindow = 0

\* Policy::retry on a retriable error of request 1: the wait to sleep and
\* the policy of the next attempt.
PolicyRetry ==
    LET q == reqs[1] IN
    /\ q.st \in {"new", "backoff"}
    /\ should_retry(q.policy, "retriable")
    /\ reqs' = [reqs EXCEPT ![1] =
                  [q EXCEPT !.st = "backoff", !.attempts = @ + 1,
                            !.slept = q.policy.current_duration,
                            !.policy = advance(q.policy)]]
    /\ UNCHANGED <<user, component, nset, call, shape, rl, acl, queue, health,
                   received, last, recent, inWindow>>

NextRetryPolicy == PolicyRetry

SpecRetryPolicy == InitRetryPolicy /\ [][NextRetryPolicy]_vars

(***************************************************************************)
(* The Buffer alone: distributed_service over an endpoint list of any      *)
(* length, callers submitting while no endpoint has been probed, so that   *)
(* the worker takes nothing; the requests are told apart by their number.  *)
(***************************************************************************)
InitBuffer ==
    /\ user = Some([DefaultConfig EXCEPT !.concurrency = Some(Fixed(1))])
    /\ component = DefaultConfig
    /\ nset = 0
    /\ call = [op |-> "unwrap_with", doc |-> EmptyDoc,
               out |-> unwrap_with(Unwrap(user), component)]
    /\ shape = "distributed"
    /\ rl = RateLimitInit(settings)
    /\ acl = [e \in 0 .. NumEndpoints |-> 0]
    /\ reqs = [r \in Requests |-> NewReq]
    /\ queue = << >>
    /\ health \in {[e \in 1 .. n |-> "Unknown"] : n \in 0 .. NumEndpoints}
    /\ received = << >>
    /\ last = NoOutcome
    /\ recent = << >>
    /\ inWindow = 0

\* Buffer::poll_ready and call: the request is sent to the worker's channel.
BufferCall ==
    /\ shape = "distributed"
    /\ BufferReady
    /\ queue' = Append(queue, Len(queue) + 1)
    /\ UNCHANGED <<user, component, nset, call, shape, rl, acl, reqs, health,
                   received, last, recent, inWindow>>

NextBuffer == BufferCall

SpecBuffer == InitBuffer /\ [][NextBuffer]_vars

\* The configuration operations alone.
SpecConfig ==
    InitConfig /\ [][NextConfig]_vars

(***************************************************************************)
(* Properties of the configuration operations (SpecConfig).                *)
(***************************************************************************)
\* The first present of the user's value, the component's and the global g.
FirstPresent(a, b, g) == IF a # None THEN a[1] ELSE IF b # None THEN b[1] ELSE g

SettingsFields ==
    {"concurrency", "timeout", "rate_limit_duration", "rate_limit_num",
     "retry_attempts", "retry_max_duration", "retry_initial_backoff",
     "adaptive_concurrency", "retry_jitter_mode"}

\* C1: unwrap_with never fails, its result has every field, and each of the
\* seven optional fields is the first present of the user's value, the
\* component's and the global default (60 s, 1 s, i64::MAX, isize::MAX,
\* 30 s, 1 s, adaptive).
C1_UnwrapWithFirstPresent ==
    call.op = "unwrap_with" =>
        /\ IsSome(call.out)
        /\ LET u == Unwrap(user)
               c == component
               s == Unwrap(call.out)
           IN  /\ DOMAIN s = SettingsFields
               /\ s.concurrency =
                    parse_concurrency(
                        FirstPresent(u.concurrency, c.concurrency, ConcAdaptive))
               /\ s.timeout = FirstPresent(u.timeout_secs, c.timeout_secs, 60)
               /\ s.rate_limit_duration =
                    FirstPresent(u.rate_limit_duration_secs,
                                 c.rate_limit_duration_secs, 1)
               /\ s.rate_limit_num =
                    FirstPresent(u.rate_limit_num, c.rate_limit_num, I64_MAX)
               /\ s.retry_attempts =
                    FirstPresent(u.retry_attempts, c.retry_attempts, ISIZE_MAX)
               /\ s.retry_max_duration =
                    FirstPresent(u.retry_max_duration_secs,
                                 c.retry_max_duration_secs, 30)
               /\ s.retry_initial_backoff =
                    FirstPresent(u.retry_initial_backoff_secs,
                                 c.retry_initial_backoff_secs, 1)

\* All three tiers decide a field in one merge: the user's retry_attempts,
\* the component's timeout, the global rate_limit_num.
C1_Witness ==
    /\ call.op = "unwrap_with"
    /\ IsSome(call.out)
    /\ Unwrap(user).retry_attempts = Some(3)
    /\ component.retry_attempts = Some(4)
    /\ Unwrap(call.out).retry_attempts = 3
    /\ Unwrap(user).timeout_secs = None
    /\ Unwrap(call.out).timeout = 1
    /\ Unwrap(user).rate_limit_num = None
    /\ component.rate_limit_num = None
    /\ Unwrap(call.out).rate_limit_num = I64_MAX

AcceptedConcurrency(v) ==
    \/ v.t = "int" /\ v.i >= 1
    \/ v.t = "str" /\ v.s \in {"adaptive", "none"}

\* C3: parsing accepts concurrency only as an integer >= 1 (Fixed(N)),
\* "adaptive" or "none"; 0, a negative integer or another string is a parse
\* error that yields no config; the empty document parses, with every
\* optional field absent.
C3_ParseConcurrency ==
    call.op = "from_str" =>
        LET d == call.doc IN
        /\ (IsSome(d.concurrency) /\ ~AcceptedConcurrency(Unwrap(d.concurrency)))
              => (call.out = None /\ user = None)
        /\ IsSome(call.out) =>
              LET c == Unwrap(call.out).concurrency IN
              IF ~IsSome(d.concurrency) THEN c = None
              ELSE LET v == Unwrap(d.concurrency) IN
                   /\ v.t = "int" => c = Some(Fixed(v.i))
                   /\ (v.t = "str" /\ v.s = "adaptive") => c = Some(ConcAdaptive)
                   /\ (v.t = "str" /\ v.s = "none") => c = Some(ConcNone)
        /\ (\A k \in Keys \ {"concurrency"} : d[k] = None)
             /\ (IsSome(d.concurrency) => AcceptedConcurrency(Unwrap(d.concurrency)))
              => IsSome(call.out)
        /\ d = EmptyDoc =>
              /\ IsSome(call.out)
              /\ \A k \in OptFields : Unwrap(call.out)[k] = None

\* `concurrency = 0` was parsed and refused.
C3_Witness ==
    /\ call.op = "from_str"
    /\ call.doc.concurrency = Some(TInt(0))
    /\ call.out = None

\* A config the data model allows: fixed(N) has N >= 1, every integer is a
\* u64 (usize).
ValidConfig(c) ==
    /\ IsSome(c.concurrency) =>
          LET k == Unwrap(c.concurrency) IN
          k.kind = "Fixed" => (k.n >= 1 /\ k.n <= U64_MAX)
    /\ \A f \in IntFields : IsSome(c[f]) => Unwrap(c[f]) \in 0 .. U64_MAX

\* No integer of the config is beyond i64::MAX.
FitsTomlInteger(c) ==
    /\ IsSome(c.concurrency) => Unwrap(c.concurrency).n <= I64_MAX
    /\ \A f \in IntFields : IsSome(c[f]) => Unwrap(c[f]) <= I64_MAX

\* C4 as stated: parse(serialize(c)) = c for every valid config c.
C4_RoundTripEveryValid ==
    (call.op = "round_trip" /\ ValidConfig(Unwrap(user))) => call.out = user

\* C4: parse(serialize(c)) = c for the default config and for every valid
\* config whose integers do not exceed i64::MAX.
C4_RoundTripWithinI64 ==
    (call.op = "round_trip" /\ ValidConfig(Unwrap(user))
        /\ FitsTomlInteger(Unwrap(user))) => call.out = user

\* The default config was serialized and parsed back to itself.
C4_Witness ==
    /\ call.op = "round_trip"
    /\ user = Some(DefaultConfig)
    /\ call.out = Some(DefaultConfig)

(***************************************************************************)
(* Properties of the pipelines.                                            *)
(***************************************************************************)
Live == {r \in Requests : reqs[r].st \in {"queued", "inflight", "backoff"}}

\* C5: in the single pipeline with concurrency fixed(1), the inner sender
\* gets requests in submission order: no request is at the inner sender
\* before every earlier one has its outcome, an attempt (first or retry)
\* carries the contents the request was submitted with, and the successes
\* arrive in the order submitted.
C5_RetryKeepsOrder ==
    (shape = "single" /\ settings.concurrency = Some(1)) =>
        /\ \A r \in Requests :
              reqs[r].st = "inflight" =>
                  \A q \in Requests : q < r => reqs[q].st = "done"
        /\ \A r \in Live : reqs[r].payload = r
        /\ \A i, j \in 1 .. Len(received) : i < j => received[i] < received[j]

\* Request 1 failed once and succeeded on its retry; request 2 has not
\* been dispatched meanwhile.
C5_Witness ==
    /\ shape = "single" /\ settings.concurrency = Some(1)
    /\ last.outcome = "ok" /\ last.attempts = 2
    /\ received = <<1>>
    /\ reqs[2].st = "new"

\* C6: with concurrency fixed(N), at most N requests are in flight at the
\* inner sender of the single pipeline and at that of each endpoint.
C6_InFlightAtMostN ==
    \A e \in 0 .. NumEndpoints :
        Cardinality(InFlightAt(e)) <= Unwrap(settings.concurrency)

\* N = 2 requests are in flight, and a third caller, which the rate limit
\* would admit, is held back.
C6_Witness ==
    /\ shape = "single"
    /\ settings.concurrency = Some(2)
    /\ Cardinality(InFlightAt(0)) = 2
    /\ reqs[3].st = "new"
    /\ rl.state = "Ready"
    /\ ~PermitAvailable(0)

\* C7: a request that ends with a retriable error (every attempt failed
\* retriably) made exactly 1 + retry_attempts attempts, and the error is the
\* one of its last attempt; no request makes more attempts than that, and
\* with retry_attempts = 0 no request ever waits for a retry.
C7_AttemptsUntilExhausted ==
    /\ (last.outcome = "err" /\ last.kind \in {"retriable", "timeout"}) =>
          /\ last.attempts = 1 + settings.retry_attempts
          /\ last.errAttempt = last.attempts
    /\ \A r \in Requests :
          /\ reqs[r].attempts <= 1 + settings.retry_attempts
          /\ settings.retry_attempts = 0 => reqs[r].st # "backoff"

\* Three attempts failed retriably with retry_attempts = 2.
C7_Witness ==
    /\ settings.retry_attempts = 2
    /\ last.outcome = "err" /\ last.kind = "retriable"
    /\ last.attempts = 3

\* C8 as stated: no retry is dispatched once retry_max_duration has elapsed
\* since the request's first attempt.
C8_NoRetryAfterMaxDuration ==
    \A r \in Requests : ~reqs[r].lateRetry

\* C8: retry_max_duration bounds each wait, not the series: the wait before
\* the first retry is retry_initial_backoff and the wait before every later
\* retry is at most retry_max_duration.
C8_MaxDurationCapsEachWait ==
    \A r \in Requests :
        reqs[r].st = "backoff" =>
            /\ reqs[r].attempts = 1 => reqs[r].slept = settings.retry_initial_backoff
            /\ reqs[r].attempts >= 2 => reqs[r].slept <= settings.retry_max_duration

\* The second wait was cut to retry_max_duration, below the first.
C8_Witness ==
    \E r \in Requests :
        /\ reqs[r].st = "backoff" /\ reqs[r].attempts = 2
        /\ reqs[r].slept = settings.retry_max_duration
        /\ reqs[r].slept < settings.retry_initial_backoff

\* C9 as stated: within any window of rate_limit_duration at most
\* rate_limit_num calls are admitted.
C9_AtMostNumInAnyWindow ==
    Len(recent) <= settings.rate_limit_num

\* C9: at most rate_limit_num calls are admitted within each window of the
\* limiter, hence at most twice as many in any window of that length; while
\* Limited the pipeline is not ready, and the caller's request stays to be
\* submitted.
C9_AtMostNumPerLimiterWindow ==
    /\ inWindow <= settings.rate_limit_num
    /\ Len(recent) <= 2 * settings.rate_limit_num
    /\ rl.state = "Limited" => ~ENABLED SubmitSingle

\* The window's calls are used up: the limiter is Limited with time left
\* while a caller waits and a permit is free.
C9_Witness ==
    /\ shape = "single"
    /\ rl.state = "Limited" /\ rl.until > 0
    /\ inWindow = settings.rate_limit_num /\ settings.rate_limit_num = 2
    /\ CallerWaiting
    /\ PermitAvailable(0)

\* C10: an attempt is never in flight longer than the timeout counted from
\* its own dispatch; a Timeout error comes only when that timer has run the
\* full timeout; and a Timeout is retried like a retriable error: it is an
\* outcome only once the retries are used up.
C10_TimeoutPerAttempt ==
    /\ \A r \in Requests :
          /\ reqs[r].st = "inflight" => reqs[r].age <= settings.timeout
          /\ reqs[r].lastKind = "timeout" => reqs[r].lastAge = settings.timeout
    /\ last.kind = "timeout" =>
          /\ last.age = settings.timeout
          /\ last.attempts = 1 + settings.retry_attempts

\* A retry is in flight with a fresh timer, after the first attempt timed
\* out and the backoff was slept: more than the timeout has passed since
\* the first attempt.
C10_Witness ==
    \E r \in Requests :
        /\ reqs[r].st = "inflight" /\ reqs[r].attempts = 2
        /\ reqs[r].lastKind = "timeout"
        /\ reqs[r].age < settings.timeout
        /\ reqs[r].elapsed > settings.timeout

\* C11 as stated: in the single pipeline the permit of a failed attempt is
\* given back before the retry, so a request waiting for its retry holds
\* none.
C11_RetryTakesFreshPermit ==
    shape = "single" =>
        \A r \in Requests : reqs[r].st = "backoff" => reqs[r].lim = -1

\* C11: in the single pipeline the limiter wraps the Retry layer, so the
\* permit taken at submission is held through the whole retry series: a
\* request at the inner sender or waiting for its retry holds the permit,
\* and the permits in use are those of the requests not yet at their
\* outcome.
C11_PermitHeldThroughRetries ==
    shape = "single" =>
        /\ \A r \in Requests :
              reqs[r].st \in {"inflight", "backoff"} => reqs[r].lim = 0
        /\ acl[0] = Cardinality({r \in Requests :
                                   reqs[r].st \in {"inflight", "backoff"}})

\* A request sleeps its backoff holding the only permit, and a caller the
\* rate limit would admit is held back by it.
C11_Witness ==
    /\ shape = "single" /\ settings.concurrency = Some(1)
    /\ \E r \in Requests : reqs[r].st = "backoff" /\ reqs[r].lim = 0
    /\ CallerWaiting
    /\ rl.state = "Ready"
    /\ ~PermitAvailable(0)

\* The spec's sequence: b(-1) = 0, b(0) = retry_initial_backoff,
\* b(n+1) = b(n) + b(n-1).
RECURSIVE FibonacciBackoff(_)
FibonacciBackoff(n) ==
    IF n < 0 THEN 0
    ELSE IF n = 0 THEN settings.retry_initial_backoff
    ELSE FibonacciBackoff(n - 1) + FibonacciBackoff(n - 2)

\* The same sequence with each sum cut to retry_max_duration.
RECURSIVE CappedBackoff(_)
CappedBackoff(n) ==
    IF n < 0 THEN 0
    ELSE IF n = 0 THEN settings.retry_initial_backoff
    ELSE Min(CappedBackoff(n - 1) + CappedBackoff(n - 2), settings.retry_max_duration)

\* C12 as stated: the wait before the n-th retry is the n-th term of the
\* Fibonacci sequence from retry_initial_backoff, whatever
\* retry_max_duration is.
C12_FibonacciBackoff ==
    \A r \in Requests :
        reqs[r].st = "backoff" =>
            reqs[r].slept = FibonacciBackoff(reqs[r].attempts - 1)

\* C12: the wait before the first retry is retry_initial_backoff, and each
\* later wait is the sum of the two waits before it (the wait before the
\* first taken as preceded by 0), cut to retry_max_duration.
C12_FibonacciBackoffCapped ==
    \A r \in Requests :
        reqs[r].st = "backoff" =>
            reqs[r].slept = CappedBackoff(reqs[r].attempts - 1)

\* The waits grew along the Fibonacci sequence and then met the cap: the
\* wait before the fourth retry or a later one is retry_max_duration,
\* above retry_initial_backoff and below the Fibonacci term.
C12_Witness ==
    /\ reqs[1].st = "backoff" /\ reqs[1].attempts >= 4
    /\ settings.retry_initial_backoff >= 1
    /\ settings.retry_max_duration > 2 * settings.retry_initial_backoff
    /\ reqs[1].slept = settings.retry_max_duration
    /\ reqs[1].slept < FibonacciBackoff(reqs[1].attempts - 1)

\* A step hands request r to the inner sender of an endpoint.
DispatchedToEndpoint(r) ==
    /\ shape = "distributed"
    /\ reqs[r].st # "inflight"
    /\ reqs'[r].st = "inflight"

C14_BufferCapacity ==
    shape = "distributed" =>
        /\ Len(queue) <= Len(health) * 200
        /\ ENABLED BufferCall <=> Len(queue) < Len(health) * 200
        /\ queue = [i \in 1 .. Len(queue) |-> i]

\* The Buffer of two endpoints is full with 400 requests and the next
\* caller is held back.
C14_Witness ==
    /\ shape = "distributed"
    /\ Len(health) = 2
    /\ Len(queue) = 400
    /\ ~ENABLED BufferCall

\* C15: the settings unwrap_with returns have the user config's
\* retry_jitter_mode and adaptive_concurrency, and are the same whatever
\* these two fields are in the component's defaults.
C15_TuningFromUserOnly ==
    (call.op = "unwrap_with" /\ IsSome(call.out)) =>
        /\ Unwrap(call.out).retry_jitter_mode = Unwrap(user).retry_jitter_mode
        /\ Unwrap(call.out).adaptive_concurrency = Unwrap(user).adaptive_concurrency
        /\ \A j \in JitterModes : \A a \in AdaptiveSettingsSamples :
              unwrap_with(Unwrap(user),
                          [component EXCEPT !.retry_jitter_mode = j,
                                            !.adaptive_concurrency = a]) = call.out

\* unwrap_with ran against component defaults that differ from the user
\* config in both fields, while the timeout, absent in the user config,
\* came from the component's defaults.
C15_Witness ==
    /\ call.op = "unwrap_with" /\ IsSome(call.out)
    /\ component.retry_jitter_mode # Unwrap(user).retry_jitter_mode
    /\ component.adaptive_concurrency # Unwrap(user).adaptive_concurrency
    /\ Unwrap(user).timeout_secs = None
    /\ IsSome(component.timeout_secs)
    /\ Unwrap(call.out).timeout = Unwrap(component.timeout_secs)
    /\ Unwrap(component.timeout_secs) # Unwrap(default_timeout_secs)

====
